---- MODULE Spec2Model ----
(***************************************************************************)
(* The ArcLink client of obspy.arclink (client.py): one request cycle of   *)
(* Client._request against a nondeterministic ArcLink server (Spec), the   *)
(* routing dictionary and its search in getRouting and _findRoute          *)
(* (SpecMatch), and the request with routing of _fetch (SpecFetch).  The   *)
(* client is single-threaded and blocking; every action below is the code  *)
(* that runs between two reads from the connection, the server's answer    *)
(* being the action's input.                                               *)
(***************************************************************************)
EXTENDS Integers, Sequences, FiniteSets, TLC

VARIABLES
    pc,           \* position of the client inside _request / _hello
    sock,         \* Telnet.sock: id of the current socket, 0 when closed
    live,         \* ids of the sockets opened and not closed
    opened,       \* number of sockets opened so far
    unread,       \* a line the server owes for an earlier command is still to be read
    sent,         \* every line written with _writeln, in order
    handle,       \* the request id the server assigned, 0 before
    req_id,       \* req_id of _request, 0 before int(status) succeeded
    status,       \* status of the loop that reads the request id: the line read last
    loops,        \* _loops of the poll loop
    old_xml_doc,  \* _old_xml_doc of the poll loop, None before the first poll
    xml_doc,      \* xml_doc: the last status document read
    docs,         \* number of status documents read so far
    run,          \* length of the current run of identical status documents
    warned,       \* messages handed to warnings.warn
    length,       \* length parsed from the first line of the download
    data,         \* data: the chunks fd.read() returned, in order
    stream,       \* what the server puts on the wire after DOWNLOAD
    rpos,         \* number of bytes of that stream consumed through fd
    lastread,     \* size of the chunk the last fd.read() returned, -1 before
    outcome,      \* how _request ended: the value returned or the exception
    fpc,          \* position of the client inside _fetch, "none" outside it
    route,        \* the route argument of _fetch
    client,       \* self._client.host and self._client.port
    request_data, \* network, station, channel, location of request_data
    answer,       \* the routing document getRouting parses, None before
    routes,       \* what getRouting returned: the keys with their entries
    keys,         \* keys of _findRoute: the keys that matched, in order
    table,        \* table of _fetch: what _findRoute returned
    asked,        \* the endpoint of every routing request made, in order
    execs,        \* the endpoint of every data request made, in order
    peer,         \* the endpoint each socket opened within _fetch went to
    result,       \* how _fetch ended: the value returned or the exception
    request_type, \* request_type of _fetch
    starttime,    \* request_data[0], in seconds
    endtime,      \* request_data[1], in seconds
    lookups,      \* number of calls of getRouting so far
    password,     \* self.password
    byes,         \* the _bye calls made between requests and how each ended
    left,         \* the endpoint each earlier _fetch call left the client on
    default_keys, \* the dictionary that is the default of the dcid_keys argument
    supplied,     \* the dcid_keys argument of the last Client(...) call
    caller_keys,  \* the dictionary the caller passed, as it is now
    key_file,     \* what the last Client(...) call found as its key file
    self_dcid_keys, \* self.dcid_keys of the last client
    built         \* the Client(...) calls so far and how the last one ended

rvars == <<pc, sock, live, opened, unread, sent, handle, req_id, status, loops, old_xml_doc, xml_doc,
           docs, run, warned, length, data, stream, rpos, lastread, outcome>>

\* the state of the client outside _request and _fetch
kvars == <<default_keys, supplied, caller_keys, key_file, self_dcid_keys, built>>

\* the request type and the time window of the request
qvars == <<request_type, starttime, endtime>>

gvars == <<lookups, password, byes, kvars, qvars, left>>

fvars == <<fpc, route, client, request_data, answer, routes, keys, table, asked, execs, peer,
           result, gvars>>

vars == <<rvars, fvars>>

----------------------------------------------------------------------------
(* Bounds of the model. *)

\* the model stops a poll loop after this many STATUS commands
MaxPolls == 53
\* request ids the server hands out: 1..MaxId
MaxId == 2

(* Program constants. *)

MAX_REQUESTS == 50
\* the largest size handed to one fd.read()
ReadMax == 4096
\* the length of the trailing line "END\r\n"
TrailerLen == 5

None == [none |-> TRUE]

\* the dictionary {}
Empty == [k \in {} |-> <<>>]

\* no client was built yet as far as the keys go
\* the request types the public methods build
Waveform == "REQUEST WAVEFORM format=MSEED"
Routing == "REQUEST ROUTING "
Qc == "REQUEST QC"
Response == "REQUEST RESPONSE format=SEED"
Inventory == "REQUEST INVENTORY "

\* one waveform request of one minute
OneQuery ==
    /\ request_type = Waveform
    /\ starttime = 60
    /\ endtime = 120

NoKeys ==
    /\ default_keys = Empty
    /\ supplied = [given |-> FALSE, keys |-> Empty]
    /\ caller_keys = Empty
    /\ key_file = [found |-> FALSE, readable |-> FALSE, lines |-> <<>>]
    /\ self_dcid_keys = Empty
    /\ built = [count |-> 0, raised |-> FALSE]

\* self.init_host and self.init_port: the endpoint the client was built with
Origin == [host |-> "webdc.eu", port |-> 18002]

----------------------------------------------------------------------------
(* Status documents.  _request looks at a status document only through     *)
(* substring tests and through equality with the previous document; a      *)
(* document is modelled by the outcome of each of those tests.             *)

ErrCodes == <<"DENIED", "CANCELLED", "CANCEL", "ERROR", "RETRY", "WARN", "UNSET">>

CodeSet == {ErrCodes[i] : i \in 1..Len(ErrCodes)}

Dcids == {"GFZ", "BIA"}

Doc(r, cs, nd, idm, c, enc, dc) ==
    [ready |-> r,          \* 'ready="true"' in xml_doc
     codes |-> cs,         \* the c with 'status="c"' in xml_doc
     nodata |-> nd,        \* 'status="NODATA"' in xml_doc
     idmark |-> idm,       \* 'id="NODATA"' in xml_doc or 'id="ERROR"' in xml_doc
     content |-> c,        \* '<line content' in xml_doc
     encrypted |-> enc,    \* 'encrypted="true"' in xml_doc
     dcid |-> dc]          \* the dcid attribute of the volume

\* the sets of terminal codes of the sampled documents: none, each code
\* alone, and some documents with several
CodeSets ==
    {{}} \cup {{c} : c \in CodeSet}
    \cup {{"CANCELLED", "CANCEL"}, {"ERROR", "WARN"}, {"DENIED", "UNSET"},
          {"CANCEL", "RETRY", "UNSET"}}

\* documents of a finished request
ReadyDocs ==
    {Doc(TRUE, cs, nd, idm, c, FALSE, "") :
        cs \in CodeSets, nd \in BOOLEAN, idm \in BOOLEAN, c \in BOOLEAN}
    \cup {Doc(TRUE, {}, FALSE, FALSE, TRUE, TRUE, dc) : dc \in Dcids}

\* documents of a request the server is still working on
PendingDocs ==
    {Doc(FALSE, {}, FALSE, FALSE, FALSE, FALSE, ""),
     Doc(FALSE, {}, FALSE, FALSE, TRUE, FALSE, ""),
     Doc(FALSE, {"UNSET"}, FALSE, FALSE, TRUE, FALSE, ""),
     Doc(FALSE, {}, TRUE, FALSE, TRUE, FALSE, "")}

Docs == ReadyDocs \cup PendingDocs

----------------------------------------------------------------------------
(* The connection. *)

Cmd(c, a) == [sock |-> sock, cmd |-> c, arg |-> a]

\* _writeln(buffer): the line goes out on the current socket
Writeln(log, c, a) == Append(log, Cmd(c, a))

\* _readln(value): the reply is "ok" when the line read holds value, and
\* "timeout" when read_until gave up before value arrived
ReadlnRaises(reply) == reply = "timeout"

Raise(kind) == [kind |-> kind]

\* a client as Client() leaves it, no request made yet
Constructed ==
    /\ pc = "idle"
    /\ sock = 1
    /\ live = {1}
    /\ opened = 1
    /\ unread = FALSE
    /\ sent = <<>>
    /\ handle = 0
    /\ req_id = 0
    /\ status = None
    /\ loops = 0
    /\ old_xml_doc = None
    /\ xml_doc = None
    /\ docs = 0
    /\ run = 0
    /\ warned = {}
    /\ length = 0
    /\ data = <<>>
    /\ stream = None
    /\ rpos = 0
    /\ lastread = -1
    /\ outcome = [kind |-> "None"]
    /\ fpc = "none"
    /\ route = FALSE
    /\ client = Origin
    /\ request_data = [net |-> <<>>, sta |-> <<>>, cha |-> <<>>, loc |-> <<>>]
    /\ answer = None
    /\ routes = <<>>
    /\ keys = <<>>
    /\ table = <<>>
    /\ asked = <<>>
    /\ execs = <<>>
    /\ peer = <<>>
    /\ result = [kind |-> "None"]
    /\ lookups = 0
    /\ password = ""
    /\ byes = <<>>
    /\ left = <<>>
    /\ NoKeys

Init ==
    /\ Constructed
    /\ OneQuery

dlvars == <<length, data, stream, rpos, lastread>>
pollvars == <<handle, req_id, status, loops, old_xml_doc, xml_doc, docs, run, warned>>
connvars == <<sock, live, opened, unread>>

\* an exception leaves _request: nothing else runs
Fail(kind) ==
    /\ pc' = "done"
    /\ outcome' = Raise(kind)

----------------------------------------------------------------------------
(* _hello, called first thing by _request. *)

\* _request is entered: _hello() reconnects and writes HELLO
HelloOpen ==
    /\ pc = "idle"
    /\ opened' = opened + 1
    /\ sock' = opened + 1
    /\ live' = live \cup {opened + 1}
    /\ unread' = FALSE
    /\ sent' = Append(sent, [sock |-> opened + 1, cmd |-> "HELLO", arg |-> 0])
    /\ pc' = "hello_version"
    /\ UNCHANGED <<pollvars, dlvars, outcome>>

\* self.version = self._readln(')')
HelloVersion ==
    /\ pc = "hello_version"
    /\ \E reply \in {"ok", "timeout"} :
          IF ReadlnRaises(reply)
          THEN Fail("Timeout")
          ELSE pc' = "hello_node" /\ UNCHANGED outcome
    /\ UNCHANGED <<connvars, sent, pollvars, dlvars>>

\* self.user
User == "ObsPy client"

\* a USER line that always has a place for the password
UserArgBoth(u, pw) == <<u, pw>>

\* the words after USER: the password is left out when it is empty
UserArg(u, pw) == IF pw # "" THEN <<u, pw>> ELSE <<u>>

\* self.node = self._readln(): without a value to wait for, _readln takes
\* whatever read_until returns, the nothing of a timeout included; then USER
\* is written
HelloNode ==
    /\ pc = "hello_node"
    /\ \E reply \in {"ok", "timeout"} : unread' = (reply = "timeout")
    /\ sent' = Writeln(sent, "USER", UserArg(User, password))
    /\ pc' = "hello_user"
    /\ UNCHANGED <<sock, live, opened, pollvars, dlvars, outcome>>

\* self._readln('OK') after USER, then INSTITUTION is written
HelloUser ==
    /\ pc = "hello_user"
    /\ \E reply \in {"ok", "timeout"} :
          IF ReadlnRaises(reply)
          THEN Fail("Timeout") /\ UNCHANGED <<sent, unread>>
          ELSE /\ sent' = Writeln(sent, "INSTITUTION", 0)
               /\ pc' = "hello_institution"
               /\ unread' = FALSE
               /\ UNCHANGED outcome
    /\ UNCHANGED <<sock, live, opened, pollvars, dlvars>>

\* the request type _request is called with: getRouting calls _fetch, and
\* so _request, with its own type
RequestType == IF fpc = "routing" THEN Routing ELSE request_type

\* UTCDateTime.formatArcLink(): the fields of a time, here its minute and
\* its second
FormatArcLink(t) == <<t \div 60, t % 60>>

\* a request line with the times as they were given
RequestLineAsGiven(s, e) == [start |-> FormatArcLink(s), end |-> FormatArcLink(e)]

\* out: the start time less one second and the end time plus one second,
\* each in the ArcLink format
RequestLine(s, e) == [start |-> FormatArcLink(s - 1), end |-> FormatArcLink(e + 1)]

\* the request type, the request line and END, written once _hello returned
SubmitLines(log) ==
    Writeln(Writeln(Writeln(log, "REQUEST", RequestType), "DATA",
                    RequestLine(starttime, endtime)), "END", 0)

\* self._readln('OK') after INSTITUTION ends _hello; _request writes the
\* request
HelloInstitution ==
    /\ pc = "hello_institution"
    /\ \E reply \in {"ok", "timeout"} :
          IF ReadlnRaises(reply)
          THEN Fail("Timeout") /\ UNCHANGED sent
          ELSE /\ sent' = SubmitLines(sent)
               /\ pc' = "submit_ok"
               /\ UNCHANGED outcome
    /\ UNCHANGED <<connvars, pollvars, dlvars>>

----------------------------------------------------------------------------
(* _bye and the release of the request. *)

\* a _bye that closes without writing BYE
ByeLogSilent(log) == log

\* _bye(): BYE is written and the socket closed
ByeLog(log) == Writeln(log, "BYE", 0)

\* the release without its PURGE
CleanupLogNoPurge(log, id) == ByeLog(log)

\* a release that says BYE before it purges
CleanupLogByeFirst(log, id) == Writeln(ByeLog(log), "PURGE", id)

\* self._writeln('PURGE %d' % req_id) followed by self._bye()
CleanupLog(log, id) == ByeLog(Writeln(log, "PURGE", id))

\* Telnet.close()
Close ==
    /\ live' = live \ {sock}
    /\ sock' = 0
    /\ UNCHANGED <<opened, unread>>

----------------------------------------------------------------------------
(* Submission: the reply to END and the request id. *)

\* self._readln('OK') after the request
SubmitOk ==
    /\ pc = "submit_ok"
    /\ \E reply \in {"ok", "timeout"} :
          IF ReadlnRaises(reply)
          THEN Fail("Timeout")
          ELSE pc' = "submit_id" /\ UNCHANGED outcome
    /\ UNCHANGED <<connvars, sent, pollvars, dlvars>>

\* an id that is off by one
ParseIdNext(line) == IF line.kind = "int" THEN line.value + 1 ELSE 0

\* int(status): the id when the line is a number, 0 when int() raises
ParseId(line) == IF line.kind = "int" THEN line.value ELSE 0

\* what self._readln() returns in the loop: a number, a line with ERROR in
\* it, another line, or the empty line of a read that timed out, which
\* _readln() takes as it takes any line
IdLines ==
    {[kind |-> "int", value |-> i] : i \in 1..MaxId}
    \cup {[kind |-> "error", value |-> 0], [kind |-> "other", value |-> 0],
          [kind |-> "timeout", value |-> 0]}

\* one round of the loop that reads the request id; status is not read once
\* the loop is left and is forgotten there
SubmitId ==
    /\ pc = "submit_id"
    /\ \E line \in IdLines :
          \/ /\ line.kind = "int"
             /\ handle' = line.value
             /\ req_id' = ParseId(line)
             /\ status' = None
             /\ pc' = "status_send"
             /\ UNCHANGED <<connvars, sent, outcome>>
          \/ /\ line.kind = "error"
             /\ sent' = ByeLog(sent)
             /\ Close
             /\ Fail("SubmitError")
             /\ status' = None
             /\ UNCHANGED <<handle, req_id>>
          \/ /\ line.kind \in {"other", "timeout"}
             /\ status' = line
             /\ UNCHANGED <<pc, connvars, sent, outcome, handle, req_id>>
    /\ UNCHANGED <<loops, old_xml_doc, xml_doc, docs, run, warned, dlvars>>

----------------------------------------------------------------------------
(* The poll loop. *)

NStatus == Cardinality({i \in DOMAIN sent : sent[i].cmd = "STATUS"})

\* self._writeln('STATUS %d' % req_id), at the top of the loop body
StatusSend ==
    /\ pc = "status_send"
    /\ NStatus < MaxPolls
    /\ sent' = Writeln(sent, "STATUS", req_id)
    /\ pc' = "status_recv"
    /\ UNCHANGED <<connvars, pollvars, dlvars, outcome>>

\* a loop that does not look at the readiness flag
ReadyBreakNever(doc) == FALSE

\* if 'ready="true"' in xml_doc: break
ReadyBreak(doc) == doc.ready

\* a counter that a new document does not reset
NextLoopsKept(old, doc, l) == l + 1

\* _loops after the comparison of the new document with _old_xml_doc
NextLoops(old, doc, l) == IF old = doc THEN l + 1 ELSE 0

\* if _loops > MAX_REQUESTS: warn and break
StallBreak(l) == l > MAX_REQUESTS

\* xml_doc = self._readln('END') and the rest of the loop body.  _loops and
\* _old_xml_doc are not read once the loop is left: they are forgotten there.
StatusReplies ==
    {[reply |-> "ok", doc |-> d] : d \in Docs}
    \cup {[reply |-> "timeout", doc |-> None]}

StatusRecv ==
    /\ pc = "status_recv"
    /\ \E r \in StatusReplies :
          IF ReadlnRaises(r.reply)
          THEN Fail("Timeout") /\ UNCHANGED pollvars
          ELSE /\ xml_doc' = r.doc
               /\ docs' = docs + 1
               /\ run' = IF r.doc = xml_doc THEN run + 1 ELSE 1
               /\ IF ReadyBreak(r.doc)
                  THEN /\ pc' = "classify"
                       /\ loops' = 0
                       /\ old_xml_doc' = None
                       /\ UNCHANGED warned
                  ELSE LET l == NextLoops(old_xml_doc, r.doc, loops) IN
                       IF StallBreak(l)
                       THEN /\ pc' = "classify"
                            /\ loops' = 0
                            /\ old_xml_doc' = None
                            /\ warned' = warned \cup {"MAX_REQUESTS exceeded"}
                       ELSE /\ pc' = "status_send"
                            /\ loops' = l
                            /\ old_xml_doc' = r.doc
                            /\ UNCHANGED warned
               /\ UNCHANGED <<handle, req_id, status, outcome>>
    /\ UNCHANGED <<connvars, sent, dlvars>>

----------------------------------------------------------------------------
(* Classification of the last status document. *)

\* the last err_code of the list that the document holds
FirstErrLast(doc) ==
    IF \E i \in 1..Len(ErrCodes) : ErrCodes[i] \in doc.codes
    THEN CHOOSE i \in 1..Len(ErrCodes) :
            /\ ErrCodes[i] \in doc.codes
            /\ \A j \in (i + 1)..Len(ErrCodes) : ErrCodes[j] \notin doc.codes
    ELSE 0

\* the first err_code of the list with 'status="<err_code>"' in xml_doc, 0
\* when there is none
FirstErr(doc) ==
    IF \E i \in 1..Len(ErrCodes) : ErrCodes[i] \in doc.codes
    THEN CHOOSE i \in 1..Len(ErrCodes) :
            /\ ErrCodes[i] \in doc.codes
            /\ \A j \in 1..(i - 1) : ErrCodes[j] \notin doc.codes
    ELSE 0

\* the error checks with the NODATA test moved before the terminal codes
ClassifyNoDataFirst(doc) ==
    IF doc.nodata THEN [kind |-> "NoData"]
    ELSE IF FirstErr(doc) # 0
    THEN [kind |-> "StatusError", code |-> ErrCodes[FirstErr(doc)]]
    ELSE IF doc.idmark THEN [kind |-> "NoDataId"]
    ELSE IF ~doc.content THEN [kind |-> "NoContent"]
    ELSE [kind |-> "Download"]

\* the branch of the error checks the document takes
Classify(doc) ==
    IF FirstErr(doc) # 0
    THEN [kind |-> "StatusError", code |-> ErrCodes[FirstErr(doc)]]
    ELSE IF doc.nodata THEN [kind |-> "NoData"]
    ELSE IF doc.idmark THEN [kind |-> "NoDataId"]
    ELSE IF ~doc.content THEN [kind |-> "NoContent"]
    ELSE [kind |-> "Download"]

\* the error checks, and DOWNLOAD when none fires
ClassifyDoc ==
    /\ pc = "classify"
    /\ LET c == Classify(xml_doc) IN
       IF c.kind # "Download"
       THEN /\ sent' = CleanupLog(sent, req_id)
            /\ Close
            /\ pc' = "done"
            /\ outcome' = c
       ELSE /\ sent' = Writeln(sent, "DOWNLOAD", req_id)
            /\ pc' = "download_length"
            /\ UNCHANGED <<connvars, outcome>>
    /\ UNCHANGED <<pollvars, dlvars>>

----------------------------------------------------------------------------
(* The download.  After DOWNLOAD the server writes a length line, avail    *)
(* payload bytes and a trailing line, and then either closes the           *)
(* connection ("eof") or goes silent ("stall").  The bytes of the stream   *)
(* are numbered from 0 at the first payload byte; data is the list of the  *)
(* ranges of the stream it is made of.                                     *)

Min(a, b) == IF a < b THEN a ELSE b

Lengths == {-1, 0, 1, ReadMax, ReadMax + 1, 2 * ReadMax + 1}

\* the most bytes one fd.read() hands over: ReadMax and more when fd
\* collects the bytes asked for, less when it passes on what one recv gave
Pieces == {ReadMax, 2500}

\* the streams of a server that declares l bytes and sends a of them
StreamsOf(l, a) ==
    {[declared |-> l, avail |-> a, trailer |-> t, ending |-> e, piece |-> ReadMax] :
        t \in {"END", "NONE"}, e \in {"eof", "stall"}}

Streams ==
    {[declared |-> l, avail |-> l, trailer |-> t, ending |-> "eof", piece |-> p] :
        l \in Lengths \ {-1}, t \in {"END", "OTHER"}, p \in Pieces}
    \cup UNION {StreamsOf(l, l) \cup StreamsOf(l, 0) : l \in Lengths \ {-1}}
    \cup UNION {StreamsOf(l, l - 1) : l \in Lengths \ {-1, 0}}
    \cup {[declared |-> -1, avail |-> 0, trailer |-> "END", ending |-> "eof",
           piece |-> ReadMax]}

\* the number of bytes the server writes after the length line
StreamLen(st) == st.avail + (IF st.trailer = "NONE" THEN 0 ELSE TrailerLen)

\* data += buf: an empty buf changes nothing, a buf that continues the last
\* range extends it
Concat(d, off, n) ==
    IF n = 0 THEN d
    ELSE IF d # <<>> /\ d[Len(d)].off + d[Len(d)].n = off
         THEN [d EXCEPT ![Len(d)].n = @ + n]
         ELSE Append(d, [off |-> off, n |-> n])

RECURSIVE DataLen(_)
\* len(data)
DataLen(d) == IF d = <<>> THEN 0 ELSE d[1].n + DataLen(Tail(d))

\* a read size that forgets what was read already
ReadSizeWhole(len, have) == Min(ReadMax, len)

\* the size asked of fd.read(): min(4096, length - len(data))
ReadSize(len, have) == Min(ReadMax, len - have)

\* the payload the server declared: its first declared bytes
Payload(st) ==
    IF st.declared <= 0 THEN <<>> ELSE <<[off |-> 0, n |-> st.declared]>>

LengthReplies ==
    {[reply |-> "ok", stream |-> st] : st \in Streams}
    \cup {[reply |-> "junk", stream |-> None], [reply |-> "timeout", stream |-> None]}

\* length = int(fd.readline(100).strip()); data = ''
DownloadLength ==
    /\ pc = "download_length"
    /\ \E r \in LengthReplies :
          CASE r.reply = "timeout" ->
                  Fail("Timeout") /\ UNCHANGED dlvars
            [] r.reply = "junk" ->
                  Fail("ValueError") /\ UNCHANGED dlvars
            [] OTHER ->
                  /\ stream' = r.stream
                  /\ length' = r.stream.declared
                  /\ data' = <<>>
                  /\ rpos' = 0
                  /\ lastread' = -1
                  /\ pc' = "download_loop"
                  /\ UNCHANGED outcome
    /\ UNCHANGED <<connvars, sent, pollvars>>

\* while len(data) < length
LoopGuard(have, len) == have < len

\* one pass of the loop body: buf = fd.read(...); data += buf.  When the
\* stream has fewer bytes left than asked for, fd.read returns them if the
\* connection was closed, and the socket times out if the server is silent
DownloadRead ==
    /\ pc = "download_loop"
    /\ LoopGuard(DataLen(data), length)
    /\ LET want == Min(ReadSize(length, DataLen(data)), stream.piece)
           got == Min(want, StreamLen(stream) - rpos)
       IN  IF got < want /\ stream.ending = "stall"
           THEN Fail("Timeout") /\ UNCHANGED <<data, rpos, lastread>>
           ELSE /\ data' = Concat(data, rpos, got)
                /\ rpos' = rpos + got
                /\ lastread' = got
                /\ UNCHANGED <<pc, outcome>>
    /\ UNCHANGED <<connvars, sent, pollvars, length, stream>>

\* fd.readline(100).strip() at read position p: the trailing line when the
\* payload was consumed exactly, what is left of the stream otherwise
TrailerLine(st, p) ==
    IF p = st.avail /\ st.trailer # "NONE" THEN st.trailer
    ELSE IF p < StreamLen(st) THEN "PARTIAL"
    ELSE ""

\* a check of the length alone
WrongLengthLenOnly(buf, have, len) == have # len

\* if buf != "END" or len(data) != length: raise Exception('Wrong length!')
WrongLength(buf, have, len) == buf # "END" \/ have # len

dcid_keys == [d \in {"GFZ"} |-> "secret"]

\* decryptor.update(data) + decryptor.final()
Decrypt(d, key) == <<[decrypted |-> d, key |-> key]>>

\* a return of the downloaded data as they came
ReturnedPlain(d, doc) == d

\* the value returned for the downloaded data and the final status document
Returned(d, doc) ==
    IF doc.encrypted /\ doc.dcid \in DOMAIN dcid_keys
    THEN Decrypt(d, dcid_keys[doc.dcid])
    ELSE d

\* the loop is over: the trailing line is read and checked and the request
\* is released
DownloadEnd ==
    /\ pc = "download_loop"
    /\ ~LoopGuard(DataLen(data), length)
    /\ LET buf == TrailerLine(stream, rpos) IN
       IF buf = "" /\ stream.ending = "stall"
       THEN /\ Fail("Timeout")
            /\ UNCHANGED <<connvars, sent, warned, rpos>>
       ELSE IF WrongLength(buf, DataLen(data), length)
       THEN /\ Fail("WrongLength")
            /\ rpos' = StreamLen(stream)
            /\ UNCHANGED <<connvars, sent, warned>>
       ELSE /\ sent' = CleanupLog(sent, req_id)
            /\ Close
            /\ rpos' = rpos + TrailerLen
            /\ pc' = "decrypt"
            /\ UNCHANGED <<warned, outcome>>
    /\ UNCHANGED <<handle, req_id, status, loops, old_xml_doc, xml_doc, docs, run,
                   length, data, stream, lastread>>

\* the check for encryption once _bye() returned, and return data
CheckEncryption ==
    /\ pc = "decrypt"
    /\ warned' = IF xml_doc.encrypted /\ xml_doc.dcid \notin DOMAIN dcid_keys
                 THEN warned \cup {"Could not decrypt"}
                 ELSE warned
    /\ pc' = "done"
    /\ outcome' = [kind |-> "Return", data |-> Returned(data, xml_doc)]
    /\ UNCHANGED <<connvars, sent, handle, req_id, status, loops, old_xml_doc, xml_doc, docs,
                   run,
                   dlvars>>

----------------------------------------------------------------------------

\* the steps of one _request call
RequestStep ==
    \/ HelloOpen
    \/ HelloVersion
    \/ HelloNode
    \/ HelloUser
    \/ HelloInstitution
    \/ SubmitOk
    \/ SubmitId
    \/ StatusSend
    \/ StatusRecv
    \/ ClassifyDoc
    \/ DownloadLength
    \/ DownloadRead
    \/ DownloadEnd
    \/ CheckEncryption

\* one _request call on the connection the client was built with
Next == RequestStep /\ UNCHANGED fvars

Spec == Init /\ [][Next]_vars

----------------------------------------------------------------------------
(* The submission of any request: _request from its call to the request    *)
(* id, for each request type and a sample of time windows.                 *)

RequestTypes == {Waveform, Routing, Qc, Response, Inventory}

\* times in seconds: next to a minute on either side, and away from one
Times == {1, 59, 60, 119}

InitSubmit ==
    /\ Constructed
    /\ request_type \in RequestTypes
    /\ starttime \in Times
    /\ endtime \in Times

\* the steps of _request up to the request id
SubmitStep ==
    \/ HelloOpen
    \/ HelloVersion
    \/ HelloNode
    \/ HelloUser
    \/ HelloInstitution
    \/ SubmitOk
    \/ SubmitId

NextSubmit == SubmitStep /\ UNCHANGED fvars

SpecSubmit == InitSubmit /\ [][NextSubmit]_vars

----------------------------------------------------------------------------
(* getRouting and _findRoute.  A network, station, location or channel     *)
(* code is a sequence of characters; a routing key is the four parts of    *)
(* key.split('.').                                                         *)

Star == <<"*">>

\* fnmatch.fnmatchcase(name, pat) for patterns of literals, * and ?
RECURSIVE Glob(_, _)
Glob(name, pat) ==
    IF pat = <<>> THEN name = <<>>
    ELSE IF Head(pat) = "*"
         THEN \/ Glob(name, Tail(pat))
              \/ name # <<>> /\ Glob(Tail(name), pat)
         ELSE /\ name # <<>>
              /\ Head(pat) = "?" \/ Head(pat) = Head(name)
              /\ Glob(Tail(name), Tail(pat))

\* an fnmatch with its arguments exchanged
FnmatchSwapped(name, pat) == Glob(pat, name)

\* fnmatch(name, pat): the key part is the name, the requested code the
\* pattern
Fnmatch(name, pat) == Glob(name, pat)

\* a part test in which an empty key part is tested like any other
PartOkNoEmpty(part, sel) == sel = Star \/ Fnmatch(part, sel)

\* one of the four tests of the key loop: the key is skipped when the part
\* is not empty, the requested code is not '*' and fnmatch fails
PartOk(part, sel) == ~(part # <<>> /\ sel # Star /\ ~Fnmatch(part, sel))

\* the key passes all four tests: parts[0] against net, parts[1] against
\* sta, parts[2] against loc, parts[3] against cha
KeyOk(key, rd) ==
    /\ PartOk(key[1], rd.net)
    /\ PartOk(key[2], rd.sta)
    /\ PartOk(key[3], rd.loc)
    /\ PartOk(key[4], rd.cha)

\* the {} that stands for a key without entries
Sentinel == [empty |-> TRUE]

\* the priority _findRoute sorts an item without one by
DefaultPriority == 1000
\* the priority getRouting gives a node whose attribute is not an integer
NoPriority == -1

\* a decoding that leaves the entry of a node without priority at the
\* default of the sort
DecodeNodeDefault(node) ==
    [priority |-> IF node.given THEN node.priority ELSE DefaultPriority,
     given |-> node.given,
     host |-> Head(node.address).host,
     port |-> Head(node.address).port]

\* temp of getRouting for one arclink node; given records whether the
\* attribute held an integer and is not an item of the dictionary
DecodeNode(node) ==
    [priority |-> IF node.given THEN node.priority ELSE NoPriority,
     given |-> node.given,
     host |-> Head(node.address).host,
     port |-> Head(node.address).port]

\* the id getRouting builds for a route element
RouteId(ns, r) ==
    IF ns = "0.1" THEN <<r.net, r.sta, <<>>, <<>>>>
    ELSE <<r.net, r.sta, r.loc, r.cha>>

\* result of getRouting: for every id the entries of the last route element
\* with that id
RouteDict(doc) ==
    LET n == Len(doc.routes)
        id(i) == RouteId(doc.ns, doc.routes[i])
        last(k) == CHOOSE i \in 1..n :
                      id(i) = k /\ \A j \in (i + 1)..n : id(j) # k
    IN  [k \in {id(i) : i \in 1..n} |->
            [j \in DOMAIN doc.routes[last(k)].nodes |->
                DecodeNode(doc.routes[last(k)].nodes[j])]]

\* the orders in which "for key in routes" may hand out the keys
Orders(S) ==
    {s \in [1..Cardinality(S) -> S] :
        \A i, j \in 1..Cardinality(S) : i # j => s[i] # s[j]}

\* keys of _findRoute
MatchKeys(order, rd) == SelectSeq(order, LAMBDA key : KeyOk(key, rd))

\* out of _findRoute before the sort
RECURSIVE Merge(_, _)
Merge(rt, ks) ==
    IF ks = <<>> THEN <<>>
    ELSE (IF rt[Head(ks)] = <<>> THEN <<Sentinel>> ELSE rt[Head(ks)])
         \o Merge(rt, Tail(ks))

\* a sort that puts {} before every entry
PrioritySentinelFirst(x) == IF x = Sentinel THEN 0 ELSE x.priority

\* x.get('priority', 1000)
Priority(x) == IF x = Sentinel THEN DefaultPriority ELSE x.priority

\* x goes behind every item that does not compare greater
RECURSIVE Insert(_, _)
Insert(x, sorted) ==
    IF sorted = <<>> THEN <<x>>
    ELSE IF Priority(Head(sorted)) <= Priority(x)
         THEN <<Head(sorted)>> \o Insert(x, Tail(sorted))
         ELSE <<x>> \o sorted

\* out.sort(cmp of the priorities): list.sort is stable
RECURSIVE Sort(_)
Sort(out) ==
    IF out = <<>> THEN <<>>
    ELSE Insert(out[Len(out)], Sort(SubSeq(out, 1, Len(out) - 1)))

\* _findRoute: False, written <<>>, when no key matched
FindRoute(rt, ks) == IF ks = <<>> THEN <<>> ELSE Sort(Merge(rt, ks))

----------------------------------------------------------------------------
(* Routing documents and requested codes the model draws from. *)

Endpoint(h, p) == [host |-> h, port |-> p]

\* an arclink element: its priority attribute, when it holds an integer, and
\* the endpoints of its address attribute
Node(g, p, addr) == [given |-> g, priority |-> p, address |-> addr]

Route(n, s, l, c, nodes) == [net |-> n, sta |-> s, loc |-> l, cha |-> c, nodes |-> nodes]

RoutingDoc(ns, rs) == [ns |-> ns, routes |-> rs]

NodeFirst == Node(TRUE, 1, <<Endpoint("h1", 1)>>)
NodeSecond == Node(TRUE, 2, <<Endpoint("h2", 2), Endpoint("h1", 1)>>)
NodeUnranked == Node(FALSE, 0, <<Endpoint("h3", 3)>>)

NodeLists ==
    {<<>>, <<NodeFirst>>, <<NodeSecond, NodeFirst>>, <<NodeFirst, NodeUnranked>>,
     <<NodeUnranked, NodeSecond>>}

MatchSegs == {<<>>, Star, <<"A">>, <<"B">>, <<"A", "*">>, <<"A", "B">>}

MatchRoutes ==
    {Route(n, s, l, c, nodes) :
        n \in MatchSegs, s \in {<<>>, <<"A">>}, l \in {<<>>, <<"0">>},
        c \in {<<>>, <<"E">>}, nodes \in NodeLists}

\* the route elements that come second in a sampled document
MatchRoutesAfter ==
    {Route(<<>>, <<>>, <<>>, <<>>, <<>>),
     Route(<<"A">>, <<"A">>, <<>>, <<>>, <<NodeSecond>>),
     Route(<<"A">>, <<>>, <<>>, <<"E">>, <<NodeUnranked, NodeFirst>>)}

MatchDocs ==
    {RoutingDoc("1.0", <<r>>) : r \in MatchRoutes}
    \cup {RoutingDoc("1.0", <<r, q>>) : r \in MatchRoutes, q \in MatchRoutesAfter}
    \cup {RoutingDoc("0.1", <<r>>) : r \in MatchRoutesAfter}
    \cup {RoutingDoc("other", <<>>)}

RequestData(n, s, c, l) == [net |-> n, sta |-> s, cha |-> c, loc |-> l]

MatchRequests ==
    {RequestData(n, s, c, l) :
        n \in {Star, <<"A">>, <<"A", "*">>, <<"A", "?">>}, s \in {Star, <<"A">>},
        c \in {<<>>, Star, <<"E">>}, l \in {<<>>, Star, <<"0">>}}

\* getRouting holds the routing document of a request for the codes of
\* request_data
InitMatch ==
    /\ pc = "done"
    /\ sock = 0
    /\ live = {}
    /\ opened = 1
    /\ unread = FALSE
    /\ sent = <<>>
    /\ handle = 0
    /\ req_id = 0
    /\ status = None
    /\ loops = 0
    /\ old_xml_doc = None
    /\ xml_doc = None
    /\ docs = 0
    /\ run = 0
    /\ warned = {}
    /\ length = 0
    /\ data = <<>>
    /\ stream = None
    /\ rpos = 0
    /\ lastread = -1
    /\ outcome = [kind |-> "Return"]
    /\ fpc = "resolve"
    /\ route = TRUE
    /\ client = Origin
    /\ request_data \in MatchRequests
    /\ answer \in MatchDocs
    /\ routes = <<>>
    /\ keys = <<>>
    /\ table = <<>>
    /\ asked = <<Origin>>
    /\ execs = <<>>
    /\ peer = <<>>
    /\ result = [kind |-> "None"]
    /\ lookups = 0
    /\ password = ""
    /\ byes = <<>>
    /\ left = <<>>
    /\ NoKeys
    /\ OneQuery

\* getRouting parses the document and _fetch hands the dictionary to
\* _findRoute
Resolve ==
    /\ fpc = "resolve"
    /\ IF answer.ns \notin {"1.0", "0.1"}
       THEN /\ fpc' = "failed"
            /\ result' = Raise("UnknownNamespace")
            /\ UNCHANGED <<routes, keys, table>>
       ELSE /\ routes' = RouteDict(answer)
            /\ \E order \in Orders(DOMAIN routes') :
                  keys' = MatchKeys(order, request_data)
            /\ table' = FindRoute(routes', keys')
            /\ fpc' = "dispatch"
            /\ UNCHANGED result
    /\ UNCHANGED <<rvars, route, client, request_data, answer, asked, execs, peer, gvars>>

NextMatch == Resolve

SpecMatch == InitMatch /\ [][NextMatch]_vars

----------------------------------------------------------------------------
(* _fetch: the request with routing.  The request cycles it runs are the   *)
(* steps of _request above, against a server with fewer answers.           *)

\* self._request(...) is called: its locals are fresh
CallRequest ==
    /\ pc' = "idle"
    /\ handle' = 0
    /\ req_id' = 0
    /\ status' = None
    /\ loops' = 0
    /\ old_xml_doc' = None
    /\ xml_doc' = None
    /\ docs' = 0
    /\ run' = 0
    /\ length' = 0
    /\ data' = <<>>
    /\ stream' = None
    /\ rpos' = 0
    /\ lastread' = -1
    /\ outcome' = [kind |-> "None"]
    /\ UNCHANGED <<sent, warned>>

\* a _fetch that asks for routes whatever its route argument
UseRoutingAlways(r) == TRUE

\* "if not route" is not taken
UseRouting(r) == r

\* a getRouting that asks for its routing document with routing
RoutingRouteOn == TRUE

\* the route argument of the _fetch call in getRouting
RoutingRoute == FALSE

\* _fetch is entered: the request is made at once, or getRouting calls
\* _fetch(rtype, rdata, route=False), which makes the routing request; were
\* that _fetch to use routing, it would call getRouting in its turn
FetchEnter ==
    /\ fpc = "start"
    /\ IF ~UseRouting(route)
       THEN /\ fpc' = "data"
            /\ CallRequest
            /\ UNCHANGED gvars
       ELSE /\ lookups' = lookups + 1
            /\ UNCHANGED <<password, byes, kvars, qvars, left>>
            /\ IF ~UseRouting(RoutingRoute)
               THEN /\ fpc' = "routing"
                    /\ CallRequest
               ELSE UNCHANGED <<fpc, rvars>>
    /\ UNCHANGED <<connvars, route, client, request_data, answer, routes, keys, table,
                   asked, execs, peer, result>>

\* _hello of a request of _fetch connects to self._client.host and port
FetchHelloOpen ==
    /\ fpc \in {"routing", "data"}
    /\ HelloOpen
    /\ peer' = Append(peer, client)
    /\ asked' = IF fpc = "routing" THEN Append(asked, client) ELSE asked
    /\ execs' = IF fpc = "data" THEN Append(execs, client) ELSE execs
    /\ UNCHANGED <<fpc, route, client, request_data, answer, routes, keys, table, result,
                   gvars>>

\* the status documents of the server of this part
FetchStatusDocs ==
    {Doc(FALSE, {}, FALSE, FALSE, TRUE, FALSE, ""),
     Doc(TRUE, {}, FALSE, FALSE, TRUE, FALSE, ""),
     Doc(TRUE, {"ERROR"}, FALSE, FALSE, TRUE, FALSE, "")}

\* the other steps of a request of _fetch; the server hands out the id 1,
\* is ready with its second status document at the latest, and sends a
\* payload of one piece
FetchRequestStep ==
    /\ fpc \in {"routing", "data"}
    /\ \/ HelloVersion
       \/ HelloNode
       \/ HelloUser
       \/ HelloInstitution
       \/ SubmitOk
       \/ SubmitId /\ handle' \in {0, 1}
       \/ StatusSend
       \/ /\ StatusRecv
          /\ pc' # "done" => (xml_doc' \in FetchStatusDocs /\ (docs' > 1 => xml_doc'.ready))
       \/ ClassifyDoc
       \/ DownloadLength /\ (pc' # "done" => (length' = 1 /\ stream'.avail = 1))
       \/ DownloadRead
       \/ DownloadEnd
       \/ CheckEncryption
    /\ UNCHANGED fvars

\* a result that is turned into the error of the end of _fetch
FetchResultNoRoute(o) == IF o.kind = "Return" THEN o ELSE Raise("RoutingError")

\* return self._request(...): the value is handed on, and so is the
\* exception
FetchResult(o) == o

\* the routing documents of the servers of this part; the request is for
\* XX.AAA..EHZ
NetXX == <<"X", "X">>
StaAAA == <<"A", "A", "A">>
ChaEHZ == <<"E", "H", "Z">>

FetchDocs ==
    {RoutingDoc("1.0", <<>>),
     RoutingDoc("1.0", <<Route(<<"Y", "Y">>, <<>>, <<>>, <<>>, <<NodeFirst>>)>>),
     RoutingDoc("1.0", <<Route(NetXX, StaAAA, <<>>, ChaEHZ, <<NodeSecond, NodeFirst>>)>>),
     RoutingDoc("1.0", <<Route(NetXX, <<>>, <<>>, <<>>, <<>>)>>),
     RoutingDoc("1.0", <<Route(NetXX, StaAAA, <<>>, <<>>,
                               <<Node(TRUE, 1, <<Origin>>), NodeSecond>>)>>),
     RoutingDoc("1.0", <<Route(NetXX, StaAAA, <<>>, <<>>,
                               <<Node(TRUE, 1, <<Endpoint("h1", 2)>>)>>)>>),
     RoutingDoc("0.1", <<Route(NetXX, StaAAA, <<>>, <<>>, <<NodeFirst, NodeUnranked>>)>>),
     RoutingDoc("1.0", <<Route(NetXX, <<>>, <<>>, <<>>, <<>>),
                         Route(NetXX, StaAAA, <<>>, <<>>, <<NodeSecond>>)>>),
     RoutingDoc("other", <<>>)}

\* the routing request of getRouting ended: its payload is the routing
\* document, or its exception leaves _fetch
FetchRouted ==
    /\ fpc = "routing"
    /\ pc = "done"
    /\ IF outcome.kind = "Return"
       THEN /\ answer' \in FetchDocs
            /\ fpc' = "resolve"
            /\ UNCHANGED result
       ELSE /\ fpc' = "failed"
            /\ result' = outcome
            /\ UNCHANGED answer
    /\ UNCHANGED <<rvars, route, client, request_data, routes, keys, table, asked, execs,
                   peer, gvars>>

\* a test that takes the client to be off the first node at all times
ChangedAlways(c) == TRUE

\* self._client.host != self.init_host and
\* self._client.port != self.init_port
Changed(c) == c.host # Origin.host /\ c.port # Origin.port

\* a test that never takes the current connection for the one asked for
SameEndpointNever(item, c) == FALSE

\* item['host'] == self._client.host and item['port'] == self._client.port
SameEndpoint(item, c) == item.host = c.host /\ item.port = c.port

\* a loop over the table that ends up with its last item
CandidateLast(t) == t[Len(t)]

\* the item of the first round of "for item in table", which always returns
Candidate(t) == t[1]

\* a client that stays where it is
RetargetNone(item, c) == c

\* self._client.host = item['host'] and self._client.port = item['port']
Retarget(item, c) == Endpoint(item.host, item.port)

\* the rest of _fetch once _findRoute returned
Dispatch ==
    /\ fpc = "dispatch"
    /\ IF table = <<>>
       THEN IF Changed(client)
            THEN /\ client' = Origin
                 /\ fpc' = "start"
                 /\ UNCHANGED <<rvars, peer, result>>
            ELSE /\ fpc' = "failed"
                 /\ result' = Raise("RoutingError")
                 /\ UNCHANGED <<rvars, client, peer>>
       ELSE LET item == Candidate(table) IN
            /\ fpc' = "data"
            /\ CallRequest
            /\ UNCHANGED result
            /\ IF item = Sentinel \/ SameEndpoint(item, client)
               THEN UNCHANGED <<connvars, client, peer>>
               ELSE /\ client' = Retarget(item, client)
                    /\ opened' = opened + 1
                    /\ sock' = opened + 1
                    /\ live' = live \cup {opened + 1}
                    /\ unread' = FALSE
                    /\ peer' = Append(peer, client')
    /\ UNCHANGED <<route, request_data, answer, routes, keys, table, asked, execs, gvars>>

\* the data request ended: _fetch returns what it returned or raised
FetchDone ==
    /\ fpc = "data"
    /\ pc = "done"
    /\ fpc' = IF outcome.kind = "Return" THEN "returned" ELSE "failed"
    /\ result' = FetchResult(outcome)
    /\ UNCHANGED <<rvars, route, client, request_data, answer, routes, keys, table, asked,
                   execs, peer, gvars>>

\* the endpoints the client is on when _fetch is called: the one it was
\* built with, or the one an earlier _fetch has left it on
FetchClients ==
    {Origin, Endpoint("webdc.eu", 18001), Endpoint("h1", 18002), Endpoint("h1", 1),
     Endpoint("h2", 2)}

InitFetch ==
    /\ pc = "done"
    /\ sock = 1
    /\ live = {1}
    /\ opened = 1
    /\ unread = FALSE
    /\ sent = <<>>
    /\ handle = 0
    /\ req_id = 0
    /\ status = None
    /\ loops = 0
    /\ old_xml_doc = None
    /\ xml_doc = None
    /\ docs = 0
    /\ run = 0
    /\ warned = {}
    /\ length = 0
    /\ data = <<>>
    /\ stream = None
    /\ rpos = 0
    /\ lastread = -1
    /\ outcome = [kind |-> "None"]
    /\ fpc = "start"
    /\ route \in BOOLEAN
    /\ client \in FetchClients
    /\ request_data = RequestData(NetXX, StaAAA, ChaEHZ, <<>>)
    /\ answer = None
    /\ routes = <<>>
    /\ keys = <<>>
    /\ table = <<>>
    /\ asked = <<>>
    /\ execs = <<>>
    /\ peer = <<client>>
    /\ result = [kind |-> "None"]
    /\ lookups = 0
    /\ password \in {"", "secret"}
    /\ byes = <<>>
    /\ left = <<>>
    /\ NoKeys
    /\ OneQuery

NextFetch ==
    \/ FetchEnter
    \/ FetchHelloOpen
    \/ FetchRequestStep
    \/ FetchRouted
    \/ Resolve
    \/ Dispatch
    \/ FetchDone

SpecFetch == InitFetch /\ [][NextFetch]_vars

----------------------------------------------------------------------------
(* _bye called once more after a _fetch has ended. *)

\* the _bye calls the model follows after a _fetch
MaxByes == 2

\* self._client.write(...): Telnet.close() has left 0 in the place of the
\* socket, and the write on it raises AttributeError
WriteRaises(s) == s = 0

\* _bye(): _writeln('BYE') and, when that returned, self._client.close()
Bye ==
    /\ fpc \in {"returned", "failed"}
    /\ Len(byes) < MaxByes
    /\ IF WriteRaises(sock)
       THEN /\ byes' = Append(byes, [closed |-> TRUE, raised |-> TRUE])
            /\ UNCHANGED <<connvars, sent>>
       ELSE /\ byes' = Append(byes, [closed |-> sock = 0, raised |-> FALSE])
            /\ sent' = ByeLog(sent)
            /\ Close
    /\ UNCHANGED <<pc, pollvars, dlvars, outcome, fpc, route, client, request_data, answer,
                   routes, keys, table, asked, execs, peer, result, lookups, password,
                   kvars, qvars, left>>

----------------------------------------------------------------------------
(* One _fetch call after another on the same client: a call with routing  *)
(* and then calls with route=False.                                        *)

MaxFetches == 2

\* _fetch returned or raised and is called again, with route=False: its
\* locals are fresh, and the client is as the call before left it
FetchAgain ==
    /\ fpc \in {"returned", "failed"}
    /\ Len(left) + 1 < MaxFetches
    /\ left' = Append(left, client)
    /\ fpc' = "start"
    /\ route' = FALSE
    /\ answer' = None
    /\ routes' = <<>>
    /\ keys' = <<>>
    /\ table' = <<>>
    /\ asked' = <<>>
    /\ execs' = <<>>
    /\ result' = [kind |-> "None"]
    /\ UNCHANGED <<rvars, client, request_data, peer, lookups, password, byes, kvars, qvars>>

\* the first call is made with routing on the client as it was built
InitAgain ==
    /\ InitFetch
    /\ route
    /\ client = Origin
    /\ password = ""

NextAgain ==
    \/ NextFetch
    \/ FetchAgain

SpecAgain == InitAgain /\ [][NextAgain]_vars

NextSession ==
    \/ NextFetch
    \/ Bye

SpecSession == InitFetch /\ [][NextSession]_vars

----------------------------------------------------------------------------
(* The keys of __init__.  A dcid, a key and the two sides of a line of the *)
(* key file are sequences of characters.                                   *)

\* the Client(...) calls the model follows
MaxClients == 2

RECURSIVE LStrip(_)
LStrip(s) == IF s # <<>> /\ Head(s) = " " THEN LStrip(Tail(s)) ELSE s

RECURSIVE RStrip(_)
RStrip(s) == IF s # <<>> /\ s[Len(s)] = " " THEN RStrip(SubSeq(s, 1, Len(s) - 1)) ELSE s

\* str.strip() as far as blanks go
Strip(s) == RStrip(LStrip(s))

\* d[k] = v
Put(d, k, v) == [x \in DOMAIN d \cup {k} |-> IF x = k THEN v ELSE d[x]]

\* a line of the key file: eq tells whether it holds a "="
Line(k, v) == [eq |-> TRUE, key |-> k, value |-> v]

NoEqLine == [eq |-> FALSE, key |-> <<>>, value |-> <<>>]

\* the loop over the lines: line.split('=', 1) of a line without "=" cannot
\* be unpacked, and the ValueError leaves __init__
RECURSIVE LoadLines(_, _)
LoadLines(d, lines) ==
    IF lines = <<>> THEN [keys |-> d, raised |-> FALSE]
    ELSE LET l == Head(lines) IN
         IF ~l.eq THEN [keys |-> d, raised |-> TRUE]
         ELSE LoadLines(IF Strip(l.key) \in DOMAIN d
                        THEN d
                        ELSE Put(d, Strip(l.key), Strip(l.value)),
                        Tail(lines))

\* the rest of __init__ after _hello for the dictionary d that self.dcid_keys
\* is: no key file, or one that cannot be read, leaves it as it is
LoadKeys(d, f) ==
    IF f.found /\ f.readable THEN LoadLines(d, f.lines)
    ELSE [keys |-> d, raised |-> FALSE]

KeyFile(fnd, rd, ls) == [found |-> fnd, readable |-> rd, lines |-> ls]

KeyLines ==
    {Line(<<"G">>, <<"f">>), Line(<<" ", "G", " ">>, <<" ", "g">>),
     Line(<<"B">>, <<"f", " ">>), NoEqLine}

KeyFiles ==
    {KeyFile(FALSE, FALSE, <<>>), KeyFile(TRUE, FALSE, <<>>), KeyFile(TRUE, TRUE, <<>>)}
    \cup {KeyFile(TRUE, TRUE, <<l>>) : l \in KeyLines}
    \cup {KeyFile(TRUE, TRUE, <<l, m>>) : l, m \in KeyLines}

\* the dictionaries a caller passes as dcid_keys
CallerDicts ==
    {Empty}
    \cup {[k \in {<<"G">>} |-> <<"c">>], [k \in {<<"B">>} |-> <<"c">>],
          [k \in {<<"G">>, <<"B">>} |-> <<"c">>]}

Arguments ==
    {[given |-> FALSE, keys |-> Empty]} \cup {[given |-> TRUE, keys |-> d] : d \in CallerDicts}

\* Client(...) with or without dcid_keys: self.dcid_keys is the dictionary
\* passed, or the one dictionary that is the default of the argument, and
\* the lines of the key file are entered into that dictionary
Construct ==
    /\ built.count < MaxClients
    /\ \E arg \in Arguments, f \in KeyFiles :
          LET d == IF arg.given THEN arg.keys ELSE default_keys
              loaded == LoadKeys(d, f)
          IN  /\ supplied' = arg
              /\ key_file' = f
              /\ self_dcid_keys' = loaded.keys
              /\ caller_keys' = IF arg.given THEN loaded.keys ELSE Empty
              /\ default_keys' = IF arg.given THEN default_keys ELSE loaded.keys
              /\ built' = [count |-> built.count + 1, raised |-> loaded.raised]
    /\ UNCHANGED <<rvars, fpc, route, client, request_data, answer, routes, keys, table,
                   asked, execs, peer, result, lookups, password, byes, qvars,
                   left>>

NextKeys == Construct

\* the process before its first Client(...) call
InitKeys ==
    /\ pc = "done"
    /\ sock = 0
    /\ live = {}
    /\ opened = 0
    /\ unread = FALSE
    /\ sent = <<>>
    /\ handle = 0
    /\ req_id = 0
    /\ status = None
    /\ loops = 0
    /\ old_xml_doc = None
    /\ xml_doc = None
    /\ docs = 0
    /\ run = 0
    /\ warned = {}
    /\ length = 0
    /\ data = <<>>
    /\ stream = None
    /\ rpos = 0
    /\ lastread = -1
    /\ outcome = [kind |-> "None"]
    /\ fpc = "none"
    /\ route = FALSE
    /\ client = Origin
    /\ request_data = [net |-> <<>>, sta |-> <<>>, cha |-> <<>>, loc |-> <<>>]
    /\ answer = None
    /\ routes = <<>>
    /\ keys = <<>>
    /\ table = <<>>
    /\ asked = <<>>
    /\ execs = <<>>
    /\ peer = <<>>
    /\ result = [kind |-> "None"]
    /\ lookups = 0
    /\ password = ""
    /\ byes = <<>>
    /\ left = <<>>
    /\ NoKeys
    /\ OneQuery

SpecKeys == InitKeys /\ [][NextKeys]_vars

----------------------------------------------------------------------------
(* Properties of one request cycle. *)

\* the places of the command c in what was written
Sent(c) == {i \in DOMAIN sent : sent[i].cmd = c}

\* PURGE for the id the server assigned, then BYE, were the last two lines
\* written, PURGE was written once, and the connection they went out on is
\* closed
Released ==
    /\ Len(sent) >= 2
    /\ sent[Len(sent) - 1].cmd = "PURGE"
    /\ sent[Len(sent) - 1].arg = handle
    /\ sent[Len(sent)].cmd = "BYE"
    /\ Cardinality(Sent("PURGE")) = 1
    /\ sock = 0
    /\ sent[Len(sent)].sock \notin live

Raised(kinds) == pc = "done" /\ outcome.kind \in kinds

\* the document went through the error checks
Classified ==
    /\ xml_doc # None
    /\ \/ Sent("DOWNLOAD") # {}
       \/ Raised({"StatusError", "NoData", "NoDataId", "NoContent"})

\* C1: when _request ends with the error of a terminal status code, of a
\* NODATA mark or of missing content, the last lines written are PURGE with
\* the id the server assigned and BYE, and the connection is closed.
C1_ClassifiedFailureReleases ==
    Raised({"StatusError", "NoData", "NoDataId", "NoContent"}) => Released

C1_Witness ==
    /\ Raised({"StatusError"})
    /\ outcome.code = "WARN"
    /\ handle = 2
    /\ Released

\* C2: when the download ends with the framing error ('Wrong length!'),
\* PURGE for the request id and BYE were written and the connection closed.
C2_FramingErrorReleases ==
    Raised({"WrongLength"}) => Released

\* C3: when a read times out after the server assigned the request id, PURGE
\* for that id and BYE were written and the connection closed.
C3_TimeoutReleases ==
    (Raised({"Timeout"}) /\ handle # 0) => Released

\* the server sent the declared number of bytes and then the line END
WellFramed ==
    /\ stream # None
    /\ stream.declared >= 0
    /\ stream.avail = stream.declared
    /\ stream.trailer = "END"

\* C4: when the server sends the length L, L bytes and the line END, the
\* request ends by returning, data is the L bytes in order, and they are
\* what is returned unless they are decrypted.
C4_WellFramedPayloadReturned ==
    (pc = "done" /\ WellFramed) =>
        /\ outcome.kind = "Return"
        /\ data = Payload(stream)
        /\ DataLen(data) = stream.declared
        /\ outcome.data \in {data, Decrypt(data, "secret")}
        /\ (~xml_doc.encrypted => outcome.data = data)

C4_Witness ==
    /\ pc = "done"
    /\ WellFramed
    /\ stream.declared = 2 * ReadMax + 1
    /\ stream.piece < ReadMax
    /\ outcome.kind = "Return"
    /\ outcome.data = <<[off |-> 0, n |-> 2 * ReadMax + 1]>>

\* the server sent the declared number of bytes and then a line that is not
\* END (or closed the connection in place of the line)
BadTrailer ==
    /\ stream # None
    /\ stream.declared >= 0
    /\ stream.avail = stream.declared
    /\ \/ stream.trailer = "OTHER"
       \/ stream.trailer = "NONE" /\ stream.ending = "eof"

\* C5: when the line after the L payload bytes is not END, the request ends
\* with the framing error, returns nothing, and DOWNLOAD was written once.
C5_BadTrailerIsFatal ==
    (pc = "done" /\ BadTrailer) =>
        /\ outcome.kind = "WrongLength"
        /\ Cardinality(Sent("DOWNLOAD")) = 1

C5_Witness ==
    /\ pc = "done"
    /\ BadTrailer
    /\ stream.trailer = "OTHER"
    /\ stream.declared = ReadMax + 1
    /\ outcome.kind = "WrongLength"

\* the stream ends before the declared number of bytes arrived
ShortStream ==
    /\ stream # None
    /\ StreamLen(stream) < stream.declared

\* C6: on a stream that ends short the request ends with the framing error,
\* and the loop is left once a read returned nothing.
C6_ShortReadIsFramingError ==
    ShortStream =>
        /\ (lastread = 0 => pc = "done")
        /\ (pc = "done" => outcome.kind = "WrongLength")

\* C7: once 51 identical documents in a row were read, no further STATUS
\* is written.
C7_StallAfter51 ==
    pc = "status_recv" => run < MAX_REQUESTS + 1

\* none of the error checks fires on the document
Clean(doc) ==
    /\ doc.codes = {}
    /\ ~doc.nodata
    /\ ~doc.idmark
    /\ doc.content

\* the place of the last STATUS written
LastStatus == CHOOSE i \in Sent("STATUS") : \A j \in Sent("STATUS") : j <= i

\* C8: once a ready document was read the poll loop is over: as many STATUS
\* were written as documents were read, none after the ready one, and when
\* the document passes the error checks DOWNLOAD is the next line written.
C8_ReadyStopsPolling ==
    (xml_doc # None /\ xml_doc.ready) =>
        /\ pc \notin {"status_send", "status_recv"}
        /\ NStatus = docs
        /\ (Clean(xml_doc) /\ pc # "classify") =>
              /\ Len(sent) > LastStatus
              /\ sent[LastStatus + 1].cmd = "DOWNLOAD"
              /\ sent[LastStatus + 1].arg = handle

C8_Witness ==
    /\ pc = "download_length"
    /\ xml_doc.ready
    /\ docs = 4
    /\ NStatus = 4
    /\ sent[Len(sent)].cmd = "DOWNLOAD"
    /\ sent[Len(sent) - 1].cmd = "STATUS"

\* C9: DOWNLOAD is written only for a document without terminal code, not
\* marked NODATA and with content; a classified document with a terminal
\* code ends in the status error, one without that is marked NODATA in the
\* no-data error, one with neither and no content in the no-content error,
\* and in these cases DOWNLOAD is never written.
C9_DownloadOnlyWhenClean ==
    Classified =>
        /\ Sent("DOWNLOAD") # {} =>
              xml_doc.codes = {} /\ ~xml_doc.nodata /\ xml_doc.content
        /\ xml_doc.codes # {} =>
              Raised({"StatusError"}) /\ outcome.code \in xml_doc.codes
        /\ (xml_doc.codes = {} /\ (xml_doc.nodata \/ xml_doc.idmark)) =>
              Raised({"NoData", "NoDataId"})
        /\ (xml_doc.codes = {} /\ xml_doc.nodata) => Raised({"NoData"})
        /\ (xml_doc.codes = {} /\ ~xml_doc.nodata /\ ~xml_doc.idmark
                /\ ~xml_doc.content) => Raised({"NoContent"})
        /\ ~Clean(xml_doc) => Sent("DOWNLOAD") = {}

C9_Witness ==
    /\ Raised({"StatusError"})
    /\ xml_doc.ready
    /\ xml_doc.nodata
    /\ xml_doc.content
    /\ Sent("DOWNLOAD") = {}

\* the stall guard ended the poll loop
Stalled == "MAX_REQUESTS exceeded" \in warned

\* C10: a document the stall guard stopped on that is not ready and carries
\* no terminal code and no NODATA mark never leads to DOWNLOAD, and the
\* request ends with the no-content error.
C10_StalledIsEmptyResult ==
    (Stalled /\ ~xml_doc.ready /\ xml_doc.codes = {}
        /\ ~xml_doc.nodata /\ ~xml_doc.idmark) =>
        /\ Sent("DOWNLOAD") = {}
        /\ pc \in {"classify", "done"}
        /\ (pc = "done" => outcome.kind = "NoContent")

\* C11: when a line holding ERROR arrives before the request id, the request
\* ends with the submission error, BYE is the last line written, the
\* connection is closed, and no STATUS, DOWNLOAD or PURGE was written.
C11_SubmitErrorClosesOnly ==
    Raised({"SubmitError"}) =>
        /\ handle = 0
        /\ sent[Len(sent)].cmd = "BYE"
        /\ sent[Len(sent) - 1].cmd = "END"
        /\ sock = 0
        /\ sent[Len(sent)].sock \notin live
        /\ Sent("STATUS") \cup Sent("DOWNLOAD") \cup Sent("PURGE") = {}

C11_Witness ==
    /\ Raised({"SubmitError"})
    /\ Cardinality(Sent("BYE")) = 1
    /\ sock = 0

----------------------------------------------------------------------------
(* Properties of getRouting and _findRoute. *)

\* _findRoute has run on the dictionary of getRouting
Resolved == fpc = "dispatch"

\* the requested code the i-th part of a key is tested against
Sel(i) == request_data[<<"net", "sta", "loc", "cha">>[i]]

Selected(k) == \E i \in DOMAIN keys : keys[i] = k

\* the item stems from a node whose priority attribute held an integer
Ranked(x) == x # Sentinel /\ x.given

Unranked(x) == x # Sentinel /\ ~x.given

\* C14: the list _findRoute returns for the dictionary of getRouting is in
\* ascending order of priority, and every entry of a node without priority
\* comes after every entry of a node with one.
C14_SortedMissingLast ==
    Resolved =>
        \A i, j \in DOMAIN table :
            /\ i < j => Priority(table[i]) <= Priority(table[j])
            /\ (Ranked(table[i]) /\ Unranked(table[j])) => i < j

\* C15 as the specification states it: a key all of whose parts meet a
\* requested code that is '*' or empty, or that they glob-match, is selected,
\* and a selected key's non-empty part glob-matches a literal requested code.
C15_WildOrEmptySelectorMatchesAll ==
    Resolved =>
        \A k \in DOMAIN routes :
            /\ (\A i \in 1..4 : Sel(i) \in {Star, <<>>} \/ Glob(k[i], Sel(i)))
                  => Selected(k)
            /\ Selected(k) =>
                  \A i \in 1..4 :
                      (Sel(i) \notin {Star, <<>>} /\ k[i] # <<>>) => Glob(k[i], Sel(i))

\* C15: a requested code '*' matches every key part; every other requested
\* code, the empty one included, matches a non-empty key part only when the
\* part glob-matches it, so an empty requested code matches empty parts only.
C15_OnlyStarSelectorMatchesAll ==
    Resolved =>
        \A k \in DOMAIN routes :
            /\ (\A i \in 1..4 : Sel(i) = Star) => Selected(k)
            /\ Selected(k) =>
                  \A i \in 1..4 :
                      /\ (Sel(i) # Star /\ k[i] # <<>>) => Glob(k[i], Sel(i))
                      /\ Sel(i) = <<>> => k[i] = <<>>

\* a key is selected on a literal network code, and a key whose only
\* non-empty part is its channel is left out by an empty channel code
C15_Witness ==
    /\ Resolved
    /\ \E k, q \in DOMAIN routes :
          /\ Selected(k) /\ k[1] # <<>> /\ request_data.net = <<"A">>
          /\ ~Selected(q) /\ request_data.cha = <<>>
          /\ q = <<<<>>, <<>>, <<>>, <<"E">>>>

\* C16 as the specification states it: a key is selected exactly when each
\* part is empty, is '*', equals the requested code or glob-matches it.
C16_KeyStarMatchesAll ==
    Resolved =>
        \A k \in DOMAIN routes :
            Selected(k) <=>
                \A i \in 1..4 :
                    \/ k[i] \in {<<>>, Star}
                    \/ k[i] = Sel(i)
                    \/ Glob(k[i], Sel(i))
                    \/ Glob(Sel(i), k[i])

\* C16: a key is selected exactly when for each part the part is empty, the
\* requested code is '*', or the part matches the requested code taken as
\* the pattern; a key part '*' is a name like any other and is not matched by
\* the requested code A.
C16_KeySelectedIffPartsMatch ==
    Resolved =>
        \A k \in DOMAIN routes :
            /\ Selected(k) <=>
                  \A i \in 1..4 : k[i] = <<>> \/ Sel(i) = Star \/ Glob(k[i], Sel(i))
            /\ (k[1] = Star /\ request_data.net = <<"A">>) => ~Selected(k)

\* a key with the network part '*' is left out by the requested network A,
\* and a key with an empty station part is selected by a literal station
C16_Witness ==
    /\ Resolved
    /\ \E k, q \in DOMAIN routes :
          /\ k[1] = Star /\ request_data.net = <<"A">> /\ ~Selected(k)
          /\ q[2] = <<>> /\ request_data.sta = <<"A">> /\ Selected(q)

----------------------------------------------------------------------------
(* Properties of _fetch. *)

\* the endpoint the client was on when _fetch was called
Entered == peer[1]

\* the endpoint the client was on when the last routing request was made
Current == asked[Len(asked)]

EndpointOf(item) == Endpoint(item.host, item.port)

Range(s) == {s[i] : i \in DOMAIN s}

Ended == fpc \in {"returned", "failed"}

\* the last routing request returned a routing document that was decoded
\* and in which no key matched
NoMatch ==
    /\ outcome.kind = "Return"
    /\ answer # None
    /\ answer.ns \in {"1.0", "0.1"}
    /\ keys = <<>>

\* C12: as long as no key of a routing answer has matched, at most two
\* routing requests were made and no data request; a second answer without
\* match finds the client on its first node, and a _fetch that ends after an
\* answer without match ends with the routing error.
C12_NoMatchEndsInRoutingError ==
    (route /\ keys = <<>>) =>
        /\ Len(asked) <= 2
        /\ execs = <<>>
        /\ (fpc = "dispatch" /\ Len(asked) = 2) => ~Changed(client)
        /\ (fpc = "failed" /\ NoMatch) => result.kind = "RoutingError"

C12_Witness ==
    /\ route
    /\ fpc = "failed"
    /\ NoMatch
    /\ Len(asked) = 2
    /\ execs = <<>>
    /\ result.kind = "RoutingError"

\* C13: a _fetch entered on an endpoint other than the one the client was
\* built with, in host or in port, that ends with the routing error has made
\* a second routing request, on the endpoint the client was built with.
C13_FallbackWhenEndpointDiffers ==
    (route /\ fpc = "failed" /\ result.kind = "RoutingError" /\ Entered # Origin) =>
        /\ Len(asked) = 2
        /\ asked[2] = Origin
        /\ client = Origin

\* the answer of the scenario: key XX.AAA..EHZ with priority 2 at h2:2 and
\* priority 1 at h1:1
ScenarioDoc ==
    RoutingDoc("1.0", <<Route(NetXX, StaAAA, <<>>, ChaEHZ, <<NodeSecond, NodeFirst>>)>>)

\* C17: when the first item of the table, which has the least priority
\* number, names an endpoint other than the current one, the data request
\* is made on a connection to that endpoint; in the scenario it is h1:1.
C17_FirstCandidateGetsRequest ==
    (route /\ execs # <<>> /\ table[1] # Sentinel /\ EndpointOf(table[1]) # Current) =>
        /\ \A j \in DOMAIN table : Priority(table[1]) <= Priority(table[j])
        /\ execs = <<EndpointOf(table[1])>>
        /\ peer[Len(peer)] = EndpointOf(table[1])
        /\ \A i \in DOMAIN sent :
              (sent[i].cmd = "REQUEST" /\ sent[i].sock > Len(asked) + 1)
                  => peer[sent[i].sock] = EndpointOf(table[1])
        /\ answer = ScenarioDoc => execs = <<Endpoint("h1", 1)>>

C17_Witness ==
    /\ route
    /\ answer = ScenarioDoc
    /\ Current # Endpoint("h1", 1)
    /\ fpc = "returned"
    /\ execs = <<Endpoint("h1", 1)>>
    /\ \E i \in DOMAIN sent :
          sent[i].cmd = "REQUEST" /\ peer[sent[i].sock] = Endpoint("h1", 1)

\* C18: _fetch makes at most one data request, for the first item of the
\* table; when that request raises, _fetch raises the same exception, and
\* no connection was opened but those of the routing requests and those to
\* the endpoint of the first item.
C18_OneAttemptFailurePropagates ==
    route =>
        /\ Len(execs) <= 1
        /\ execs # <<>> =>
              execs[1] = IF table[1] = Sentinel THEN Current ELSE EndpointOf(table[1])
        /\ (fpc = "failed" /\ execs # <<>>) =>
              (result = outcome /\ outcome.kind # "Return")
        /\ \A s \in DOMAIN peer :
              \/ s = 1
              \/ peer[s] \in Range(asked)
              \/ table # <<>> /\ table[1] # Sentinel /\ peer[s] = EndpointOf(table[1])

C18_Witness ==
    /\ route
    /\ fpc = "failed"
    /\ execs # <<>>
    /\ result.kind = "StatusError"
    /\ Len(table) = 2
    /\ EndpointOf(table[2]) \notin Range(peer)

\* the first item of the table is {} or names the current endpoint
OnCurrent ==
    /\ table # <<>>
    /\ \/ table[1] = Sentinel
       \/ table[1].host = Current.host /\ table[1].port = Current.port

\* C19: when the first item of the table is {} or its host and port are
\* those of the current endpoint, the data request is made on the current
\* endpoint, host and port of the client stay as they were, and no
\* connection is opened but the one of each request.
C19_CurrentEndpointKept ==
    (route /\ fpc \in {"data", "returned", "failed"} /\ OnCurrent) =>
        /\ client = Current
        /\ execs \in {<<>>, <<Current>>}
        /\ Len(peer) = 1 + Len(asked) + Len(execs)
        /\ Ended => execs = <<Current>>

C19_Witness ==
    /\ route
    /\ fpc = "returned"
    /\ table # <<>>
    /\ table[1] # Sentinel
    /\ EndpointOf(table[1]) = Current
    /\ execs = <<Current>>
    /\ Current # Origin

\* C20: with route=False no routing request is made, there is one request
\* cycle, on the endpoint the client was on, which stays the client's, and
\* _fetch ends the way that cycle ended.
C20_NoRoutingWhenDisabled ==
    ~route =>
        /\ lookups = 0
        /\ asked = <<>>
        /\ answer = None
        /\ client = Entered
        /\ execs \in {<<>>, <<Entered>>}
        /\ Cardinality(Sent("HELLO")) <= 1
        /\ Cardinality(Sent("REQUEST")) <= 1
        /\ Ended => (execs = <<Entered>> /\ result = outcome)

C20_Witness ==
    /\ ~route
    /\ fpc = "returned"
    /\ Entered # Origin
    /\ Cardinality(Sent("REQUEST")) = 1

----------------------------------------------------------------------------
(* Properties of getRouting as _fetch uses it. *)

\* the REQUEST lines written on the socket s
Requests(s) == {i \in DOMAIN sent : sent[i].cmd = "REQUEST" /\ sent[i].sock = s}

\* the sockets of the routing requests: they come right after the socket
\* _fetch was entered with
RoutingSocks == 2..(Len(asked) + 1)

\* C21: every call of getRouting makes one request cycle and no further
\* call of getRouting: the calls are as many as the routing requests made
\* or about to be made, each routing request writes REQUEST at most once,
\* once when it returned, and while it runs the client stays on its endpoint
\* and opens no other connection.
C21_RoutingIsOneCycle ==
    /\ lookups = Len(asked) + (IF fpc = "routing" /\ pc = "idle" THEN 1 ELSE 0)
    /\ \A s \in RoutingSocks : Cardinality(Requests(s)) <= 1
    /\ fpc \in {"resolve", "dispatch"} => Cardinality(Requests(Len(asked) + 1)) = 1
    /\ fpc \in {"routing", "resolve", "dispatch"} =>
          /\ Len(peer) = Len(asked) + 1
          /\ lookups = Len(asked) => client = Current

C21_Witness ==
    /\ fpc = "dispatch"
    /\ lookups = 2
    /\ Cardinality(Requests(2)) = 1
    /\ Cardinality(Requests(3)) = 1
    /\ Cardinality(Sent("REQUEST")) = 2

----------------------------------------------------------------------------
(* Properties of the decryption and of the keys. *)

\* C22: when _request returns after the download of a payload whose status
\* document is marked encrypted, the value returned is the decryptor's
\* output on the downloaded data with the key of the document's dcid when
\* dcid_keys has that dcid, and no warning is given; otherwise it is the
\* downloaded data and the warning was given.
C22_DecryptsWithKnownKey ==
    (Raised({"Return"}) /\ xml_doc.encrypted /\ Sent("DOWNLOAD") # {}) =>
        IF xml_doc.dcid \in DOMAIN dcid_keys
        THEN /\ outcome.data = Decrypt(data, dcid_keys[xml_doc.dcid])
             /\ outcome.data # data
             /\ "Could not decrypt" \notin warned
        ELSE /\ outcome.data = data
             /\ "Could not decrypt" \in warned

C22_Witness ==
    /\ Raised({"Return"})
    /\ xml_doc.encrypted
    /\ xml_doc.dcid = "GFZ"
    /\ data # <<>>
    /\ outcome.data = Decrypt(data, "secret")

\* the keys of the lines of the key file that was read
FileKeys ==
    IF key_file.found /\ key_file.readable
    THEN {Strip(key_file.lines[i].key) : i \in DOMAIN key_file.lines}
    ELSE {}

\* C23: after a Client(...) call that returned, self.dcid_keys has the keys
\* of the dcid_keys argument and those of the key file, with the argument's
\* key for every dcid of the argument and a key of the file for the others.
C23_KeysAreCallerThenFile ==
    (built.count > 0 /\ ~built.raised) =>
        /\ DOMAIN self_dcid_keys = DOMAIN supplied.keys \cup FileKeys
        /\ \A k \in DOMAIN supplied.keys : self_dcid_keys[k] = supplied.keys[k]
        /\ \A k \in FileKeys \ DOMAIN supplied.keys :
              \E i \in DOMAIN key_file.lines :
                  /\ Strip(key_file.lines[i].key) = k
                  /\ self_dcid_keys[k] = Strip(key_file.lines[i].value)

----------------------------------------------------------------------------
(* Properties of the session: _hello, _bye and the connections. *)

\* the lines written on the socket s, in order
LinesOn(s) == SelectSeq(sent, LAMBDA e : e.sock = s)

HelloStages == {"hello_version", "hello_node", "hello_user", "hello_institution"}

\* on every socket the lines start with HELLO, USER, INSTITUTION and the
\* request type, each written once, and USER carries the password only when
\* there is one; USER is not written before the reads of the version and of
\* the node line, INSTITUTION not before the OK for USER, and the request
\* not before the OK for INSTITUTION
HelloInOrder ==
    /\ \A s \in 1..opened :
          LET l == LinesOn(s) IN
          /\ Len(l) >= 1 => l[1].cmd = "HELLO"
          /\ Len(l) >= 2 =>
                /\ l[2].cmd = "USER"
                /\ l[2].arg = IF password = "" THEN <<User>> ELSE <<User, password>>
          /\ Len(l) >= 3 => l[3].cmd = "INSTITUTION"
          /\ Len(l) >= 4 => l[4].cmd = "REQUEST"
          /\ \A i \in DOMAIN l : l[i].cmd \in {"HELLO", "USER", "INSTITUTION"} => i <= 3
    /\ pc \in {"hello_version", "hello_node"} => Len(LinesOn(sock)) = 1
    /\ pc = "hello_user" => Len(LinesOn(sock)) = 2
    /\ pc = "hello_institution" => Len(LinesOn(sock)) = 3
    /\ pc = "submit_ok" => LinesOn(sock)[4].cmd = "REQUEST"

\* a step that ends the request within _hello raises the error of _readln
\* and writes nothing
HelloFailureStep ==
    (pc \in HelloStages /\ pc' = "done") =>
        /\ outcome'.kind = "Timeout"
        /\ sent' = sent
        /\ sock' = sock

\* no line is written on a socket other than the one of the session
WritesOnSession ==
    \A i \in DOMAIN sent' :
        i > Len(sent) => (sent'[i].sock = sock' \/ sent'[i].sock = sock)

C25_SecondByeIsSafe ==
    \A i \in DOMAIN byes :
        byes[i].closed => (~byes[i].raised /\ sock = 0)

\* C26: at every point at most one connection is open.
C26_AtMostOneConnection == Cardinality(live) <= 1

\* a step that writes a line leaves no line unread that the server owes for
\* an earlier command of the session
WritesAfterReading == sent' # sent => ~unread'

\* C27: no command is written while the answer to the command before it on
\* the session has not been read to its end.
C27_StrictRequestResponse == [][WritesAfterReading]_vars

----------------------------------------------------------------------------
(* Properties of the lines of one request cycle. *)

\* the socket the request type was written on
RequestSock == sent[CHOOSE i \in DOMAIN sent : sent[i].cmd = "REQUEST"].sock

\* C28: every STATUS, DOWNLOAD and PURGE line carries the id the server
\* returned for the request and is written on the connection the request
\* was written on; PURGE is written at most once, and once when the request
\* returns.
C28_IdOnEveryCommand ==
    /\ \A i \in DOMAIN sent :
          sent[i].cmd \in {"STATUS", "DOWNLOAD", "PURGE"} =>
              /\ handle # 0
              /\ sent[i].arg = handle
              /\ sent[i].sock = RequestSock
    /\ Cardinality(Sent("PURGE")) <= 1
    /\ Raised({"Return"}) => Cardinality(Sent("PURGE")) = 1

C28_Witness ==
    /\ Raised({"Return"})
    /\ handle = 2
    /\ Cardinality(Sent("STATUS")) >= 2
    /\ Cardinality(Sent("DOWNLOAD")) = 1
    /\ Cardinality(Sent("PURGE")) = 1

\* what the server reads from a time of the request line
ParseArcLink(f) == f[1] * 60 + f[2]

\* C29: whatever the request type, the request line written after it holds
\* the start time less one second and the end time plus one second, and
\* each field of the line is a time of day (the second below sixty)
C29_WindowWidenedByOne ==
    \A i \in DOMAIN sent :
        sent[i].cmd = "DATA" =>
            /\ ParseArcLink(sent[i].arg.start) = starttime - 1
            /\ ParseArcLink(sent[i].arg.end) = endtime + 1
            /\ sent[i].arg.start[2] \in 0..59
            /\ sent[i].arg.end[2] \in 0..59
            /\ sent[i - 1].cmd = "REQUEST"
            /\ sent[i - 1].arg = request_type

\* an inventory request from 1:00 to 1:59 was written as 0:59 to 2:00
C29_Witness ==
    /\ pc = "status_send"
    /\ request_type = Inventory
    /\ starttime = 60
    /\ endtime = 119
    /\ \E i \in DOMAIN sent :
          /\ sent[i].cmd = "DATA"
          /\ sent[i].arg = [start |-> <<0, 59>>, end |-> <<2, 0>>]

\* the commands written, in order
Cmds == [i \in DOMAIN sent |-> sent[i].cmd]

\* the payload arrived whole and the request was released
Succeeded == pc = "decrypt" \/ Raised({"Return"})

\* the lines of a request that succeeded
CycleInOrder ==
    Succeeded =>
        LET n == Len(sent) IN
        /\ n >= 10
        /\ SubSeq(Cmds, 1, 6) = <<"HELLO", "USER", "INSTITUTION", "REQUEST", "DATA", "END">>
        /\ \A i \in 7..(n - 3) : Cmds[i] = "STATUS"
        /\ SubSeq(Cmds, n - 2, n) = <<"DOWNLOAD", "PURGE", "BYE">>
        /\ \A i \in DOMAIN sent : sent[i].sock = RequestSock
        /\ sock = 0
        /\ RequestSock \notin live

\* a step from a state in which BYE was written writes nothing
NothingAfterBye == "BYE" \in {sent[i].cmd : i \in DOMAIN sent} => sent' = sent

\* a step that decrypts, warns that it cannot, or returns the data
Decrypts ==
    \/ outcome'.kind = "Return" /\ outcome.kind # "Return"
    \/ "Could not decrypt" \in warned' /\ "Could not decrypt" \notin warned

\* such a step starts with PURGE and BYE written last and the socket closed
DecryptsAfterRelease ==
    Decrypts =>
        /\ Len(sent) >= 2
        /\ SubSeq(Cmds, Len(sent) - 1, Len(sent)) = <<"PURGE", "BYE">>
        /\ sock = 0
        /\ RequestSock \notin live
        /\ sent' = sent

\* C30: a request that succeeds wrote HELLO, USER, INSTITUTION, the request,
\* one or more STATUS, DOWNLOAD, PURGE and BYE, in that order and nothing
\* else; nothing is written after BYE; and the payload is decrypted and
\* returned only once PURGE and BYE are written and the socket is closed.
C30_SuccessfulCycleOrder ==
    /\ []CycleInOrder
    /\ [][NothingAfterBye /\ DecryptsAfterRelease]_vars

\* an encrypted payload came back decrypted after three status requests
C30_Witness ==
    /\ Raised({"Return"})
    /\ xml_doc.encrypted
    /\ outcome.data = Decrypt(data, "secret")
    /\ Cardinality(Sent("STATUS")) = 3
    /\ Len(sent) = 12

----------------------------------------------------------------------------
(* Properties of the end of the poll loop. *)

\* a document was read and the loop goes on to its next STATUS
KeepsPolling == pc = "status_recv" /\ pc' = "status_send"

\* the loop is left by one of its two break statements
LeavesLoop == pc = "status_recv" /\ pc' = "classify"

\* the stall guard: the document equals the one before it for the 51st time
\* in a row, and the warning is given
GuardTrips ==
    /\ xml_doc' = old_xml_doc
    /\ loops = MAX_REQUESTS
    /\ "MAX_REQUESTS exceeded" \in warned'

PollStep ==
    /\ LeavesLoop => (xml_doc'.ready \/ GuardTrips)
    /\ (KeepsPolling /\ xml_doc' # old_xml_doc) => (loops' = 0 /\ old_xml_doc' = xml_doc')
    /\ (KeepsPolling /\ xml_doc' = old_xml_doc) => loops' = loops + 1
    /\ (pc = "status_recv" /\ pc' = "done") => outcome'.kind = "Timeout"

\* while the counter has not passed the bound the next STATUS is written
PollsOn ==
    /\ pc = "status_send" => (loops <= MAX_REQUESTS /\ ~Stalled)
    /\ (pc = "status_send" /\ NStatus < MaxPolls) => ENABLED StatusSend

\* C31: the poll loop is left by a break only on a ready document or when
\* the stall guard trips (a read that times out raises instead); a document
\* that differs from the one before it sets the counter to zero, an equal
\* one adds one; and as long as the guard has not tripped the next STATUS
\* is written, however many were written before.
C31_PollingUnbounded ==
    /\ []PollsOn
    /\ [][PollStep]_vars

\* more STATUS commands than the stall guard allows for one document were
\* written, no document was ready, the last one differed from the one before
\* it, and the loop goes on
C31_Witness ==
    /\ pc = "status_send"
    /\ NStatus > MAX_REQUESTS + 2
    /\ loops = 0
    /\ run = 1
    /\ ~xml_doc.ready
    /\ ~Stalled

----------------------------------------------------------------------------
(* Properties of the loop that reads the request id. *)

\* C32: once the read of the request id has timed out, the request has
\* ended with the timeout error: the client is not in the loop any more,
\* about to read again.
C32_SubmitTimesOut ==
    (status # None /\ status.kind = "timeout") =>
        (pc = "done" /\ outcome.kind = "Timeout")

----------------------------------------------------------------------------
(* Properties of the client after _fetch. *)

\* _fetch with routing set the client to the endpoint of the first item of
\* its table, which was not the endpoint it was on
Retargeted ==
    /\ route
    /\ execs # <<>>
    /\ table[1] # Sentinel
    /\ EndpointOf(table[1]) # Current

\* from the retargeting on, while the data request runs and once _fetch
\* returned or raised, the client is on the routed endpoint
StaysRetargeted == Retargeted => client = EndpointOf(table[1])

\* a request made with route=False after an earlier _fetch is made on the
\* endpoint that _fetch left the client on
RunsWhereLeft ==
    (~route /\ left # <<>> /\ execs # <<>>) =>
        /\ execs = <<left[Len(left)]>>
        /\ client = left[Len(left)]
        /\ peer[Len(peer)] = left[Len(left)]
        /\ asked = <<>>

\* the next call finds the client where the call before ended, which is the
\* routed endpoint when that call retargeted
NextCallFindsIt ==
    left' # left =>
        /\ client' = client
        /\ left' = Append(left, client)
        /\ Retargeted => left'[Len(left')] = EndpointOf(table[1])

\* C33: once _fetch has retargeted the client to a routed endpoint, the
\* client is on that endpoint when _fetch returns or raises, and a later
\* request with route=False is made on it.
C33_StaysOnRoutedEndpoint ==
    /\ [](StaysRetargeted /\ RunsWhereLeft)
    /\ [][NextCallFindsIt]_vars

\* built on webdc.eu:18002, the client was routed to h1:1, and the request
\* made afterwards with route=False went to h1:1 and returned
C33_Witness ==
    /\ ~route
    /\ fpc = "returned"
    /\ peer[1] = Origin
    /\ left = <<Endpoint("h1", 1)>>
    /\ execs = <<Endpoint("h1", 1)>>
    /\ \E i \in DOMAIN sent :
          /\ sent[i].cmd = "REQUEST"
          /\ sent[i].sock = Len(peer)
          /\ peer[sent[i].sock] = Endpoint("h1", 1)

----------------------------------------------------------------------------
(* Properties of the key mappings across clients. *)

\* a Client(...) call leaves the default mapping and the mapping the caller
\* passed as they were, and a client built without a mapping has no key but
\* those of its own key file
KeepsMappings ==
    built'.count > built.count =>
        /\ default_keys' = default_keys
        /\ supplied'.given => caller_keys' = supplied'.keys
        /\ (~supplied'.given /\ ~built'.raised) => DOMAIN self_dcid_keys' \subseteq FileKeys'

\* C34: constructing a client changes neither the mapping the caller passed
\* nor the mapping clients share, and a client built without keys of the
\* caller sees no key that another client loaded from its key file.
C34_ConstructionKeepsMappings == [][KeepsMappings]_vars

----------------------------------------------------------------------------
(* Properties of the status error. *)

\* the order in which the terminal codes are to be looked for
Precedence == <<"DENIED", "CANCELLED", "CANCEL", "ERROR", "RETRY", "WARN", "UNSET">>

\* the place of the code c in that order
Place(c) == CHOOSE i \in DOMAIN Precedence : Precedence[i] = c

\* C35: the status error names a terminal code of the last document before
\* which, in the order DENIED, CANCELLED, CANCEL, ERROR, RETRY, WARN, UNSET,
\* the document holds no other; PURGE and BYE were each written once, as
\* the last two lines, and the socket is closed.
C35_FirstCodeInOrder ==
    Raised({"StatusError"}) =>
        /\ outcome.code \in xml_doc.codes
        /\ \A c \in xml_doc.codes : Place(outcome.code) <= Place(c)
        /\ Cardinality(Sent("PURGE")) = 1
        /\ Cardinality(Sent("BYE")) = 1
        /\ SubSeq(Cmds, Len(sent) - 1, Len(sent)) = <<"PURGE", "BYE">>
        /\ sent[Len(sent) - 1].arg = handle
        /\ sock = 0

\* a document with CANCEL, RETRY and UNSET ended in the error of CANCEL
C35_Witness ==
    /\ Raised({"StatusError"})
    /\ xml_doc.codes = {"CANCEL", "RETRY", "UNSET"}
    /\ outcome.code = "CANCEL"
    /\ Cardinality(Sent("PURGE")) = 1
    /\ Cardinality(Sent("BYE")) = 1

----------------------------------------------------------------------------
(* Properties of the {} item in the table of _findRoute. *)

\* the routing document in which one matching key has no entry and another
\* has the entry h2:2 with priority 2
SentinelDoc ==
    RoutingDoc("1.0", <<Route(NetXX, <<>>, <<>>, <<>>, <<>>),
                        Route(NetXX, StaAAA, <<>>, <<>>, <<NodeSecond>>)>>)

\* the places of {} in the table
SentinelAt == {i \in DOMAIN table : table[i] = Sentinel}

\* the entries of the table that sort before 1000
Below == {j \in DOMAIN table : table[j] # Sentinel /\ table[j].priority < 1000}

\* C36: in the table of _findRoute every entry with a priority below 1000
\* comes before {} and every entry with a priority above 1000 after it; so
\* with {} and such an entry in the table the first item is an entry, and the
\* data request goes to its endpoint, on a new connection when it is not the
\* current endpoint.
C36_SentinelSortsAsThousand ==
    (route /\ table # <<>>) =>
        /\ \A i \in SentinelAt, j \in DOMAIN table \ SentinelAt :
              /\ table[j].priority < 1000 => j < i
              /\ table[j].priority > 1000 => i < j
        /\ (SentinelAt # {} /\ Below # {}) =>
              /\ table[1] # Sentinel
              /\ execs # <<>> =>
                    /\ execs = <<EndpointOf(table[1])>>
                    /\ client = EndpointOf(table[1])
                    /\ peer[Len(peer)] = EndpointOf(table[1])
                    /\ EndpointOf(table[1]) # Current => Len(peer) > Len(asked) + 2

\* the origin answered with {} for XX and h2:2 for XX.AAA: the request went
\* to h2:2 and returned
C36_Witness ==
    /\ route
    /\ fpc = "returned"
    /\ answer = SentinelDoc
    /\ Current = Origin
    /\ Len(table) = 2
    /\ table[2] = Sentinel
    /\ execs = <<Endpoint("h2", 2)>>
    /\ client = Endpoint("h2", 2)
====
